---- MODULE Spec2Model ----
(***************************************************************************)
(* Epoch-pipelined simulation driver (arbor/simulation.cpp).               *)
(*                                                                         *)
(* Time is counted in integer ticks.  One rank with two local cells is     *)
(* modelled: cell 1 (gid 0) can fire and has no event generator, cell 2    *)
(* (gid 1) is passive and has one, gid 2 lives on another rank.  Every     *)
(* cell forms its own group.                                               *)
(* A run() is executed by three threads: the caller ("main") and the two   *)
(* tasks of a task_group batch ("a" and "b").                              *)
(***************************************************************************)
EXTENDS Integers, Sequences, FiniteSets, TLC

(* ------------------------------ bounds -------------------------------- *)

\* Largest tfinal passed to run().
MaxT == 6
\* Largest number of spikes emitted since construction or the last reset().
MaxSpikes == 2
\* Largest number of spikes one group reports from one advance().
MaxSpikesPerAdvance == 1
\* Largest number of inject_events() calls since construction or reset().
MaxInjectCalls == 1
\* Largest number of events in one inject_events() argument.
MaxInjectLen == 2
\* Largest time of an event or window bound given to a bare merge_cell_events.
MergeMaxT == 3
\* Largest number of events in old_events and pending together.
MergeMaxLen == 3

(* ------------------------- recipe / decomposition --------------------- *)

\* Minimum network delays the recipe may have (ticks; even, so that the
\* halving of the constructor is exact as it is in floating point).
MinDelays == {4}

NumCells == 2
Cells == 1..NumCells
Groups == 1..NumCells
\* The gids of the two local cells; gid 2 is a cell of another rank.
LocalGids == {0, 1}
AllGids == LocalGids \cup {2}
Threads == {"main", "a", "b"}

\* communicator_.group_queue_range(i): the lanes owned by group i.
group_queue_range(g) == {g}

\* A lookup that yields the first cell for a gid that is not in the table.
gid_to_local_default(gid) == IF gid \in LocalGids THEN gid + 1 ELSE 1

\* gid_to_local_: gid -> local cell index (absent for a foreign gid).
gid_to_local(gid) == IF gid \in LocalGids THEN gid + 1 ELSE 0

GidOf(cell) == cell - 1

\* Times at which the generators of a cell fire (recipe.event_generators).
GenTimes(cell) == IF cell = 2 THEN {1, 3, 5} ELSE {}

\* event_generators_[cell]: the generators of a cell in their order, each as
\* the times at which it fires.  Index 3 is no cell of the simulation: it is
\* a vector of two generators for bare calls of merge_cell_events.
Generators(cell) ==
    IF cell = 3 THEN <<{1, 3}, {1, 2}>>
    ELSE IF GenTimes(cell) # {} THEN <<GenTimes(cell)>>
    ELSE <<>>

\* The cells that can fire; the others are passive.
SpikingCells == {1}
GenWeight == 3

\* The network: source gid, target cell, delay in excess of min_delay, weight.
Connections == {
    [src |-> 0, dst |-> 2, extra |-> 0, weight |-> 1],
    [src |-> 1, dst |-> 1, extra |-> 1, weight |-> 2]}

(* ------------------------------ epoch ---------------------------------- *)

\* epoch(): the reset value of the epoch clock.
EpochZero == [id |-> 0, t0 |-> 0, t1 |-> 0]

\* epoch::advance_to
advance_to(e, t) == [id |-> e.id + 1, t0 |-> e.t1, t1 |-> t]

\* epoch::empty
empty(e) == e.t1 = e.t0

Min(a, b) == IF a < b THEN a ELSE b

\* The next_epoch lambda of run() without the clipping at tfinal.
next_epoch_unclipped(e, interval, tf) == advance_to(e, e.t1 + interval)

\* The next_epoch lambda of run().
next_epoch(e, interval, tf) == advance_to(e, Min(e.t1 + interval, tf))

(* ------------------------------ events --------------------------------- *)

\* A post-synaptic event.  time and weight are the program's fields; org, s
\* and k record where the event comes from: org is "spk" (made from a spike
\* emitted at time s by the Update of epoch k), "inj" (inject_events) or
\* "gen" (an event generator).
Ev(t, w, org, s, k) == [time |-> t, weight |-> w, org |-> org, s |-> s, k |-> k]

\* operator< of events: by time, ties by weight.
EventLess(a, b) == a.time < b.time \/ (a.time = b.time /\ a.weight < b.weight)

RECURSIVE InsertSorted(_, _)
InsertSorted(e, seq) ==
    IF seq = <<>> THEN <<e>>
    ELSE IF EventLess(e, Head(seq)) THEN <<e>> \o seq
    ELSE <<Head(seq)>> \o InsertSorted(e, Tail(seq))

\* A sort that leaves the buffer as it is.
sort_skipped(seq) == seq

\* util::sort(pending_events_[i])
RECURSIVE Sort(_)
Sort(seq) ==
    IF seq = <<>> THEN <<>>
    ELSE InsertSorted(seq[Len(seq)], Sort(SubSeq(seq, 1, Len(seq) - 1)))

\* std::upper_bound in the place of std::lower_bound: the number of events
\* before the first one whose time is greater than v.
RECURSIVE UpperBound(_, _)
UpperBound(seq, v) ==
    IF seq = <<>> \/ Head(seq).time > v THEN 0
    ELSE 1 + UpperBound(Tail(seq), v)

\* std::lower_bound with event_time_less: the number of events before the
\* first one whose time is not less than v.
RECURSIVE LowerBound(_, _)
LowerBound(seq, v) ==
    IF seq = <<>> \/ ~(Head(seq).time < v) THEN 0
    ELSE 1 + LowerBound(Tail(seq), v)

\* split_sorted_range: the events before v and the events from v on.
split_sorted_range(seq, v) ==
    LET n == LowerBound(seq, v)
    IN  [first |-> SubSeq(seq, 1, n), second |-> SubSeq(seq, n + 1, Len(seq))]

\* std::merge(r1, r2): an element of r2 goes first only when it is less.
RECURSIVE StdMerge(_, _)
StdMerge(r1, r2) ==
    IF r1 = <<>> THEN r2
    ELSE IF r2 = <<>> THEN r1
    ELSE IF EventLess(Head(r2), Head(r1))
         THEN <<Head(r2)>> \o StdMerge(r1, Tail(r2))
         ELSE <<Head(r1)>> \o StdMerge(Tail(r1), r2)

\* tree_merge_events: K-way merge, equal events in the order of the spans.
RECURSIVE tree_merge_events(_)
tree_merge_events(spanbuf) ==
    IF spanbuf = <<>> THEN <<>>
    ELSE StdMerge(Head(spanbuf), tree_merge_events(Tail(spanbuf)))

\* The events of generator g at the times ts, in time order; k records g.
RECURSIVE TimesToEvents(_, _)
TimesToEvents(ts, g) ==
    IF ts = {} THEN <<>>
    ELSE LET m == CHOOSE x \in ts : \A y \in ts : x <= y
         IN  <<Ev(m, GenWeight, "gen", 0, g)>> \o TimesToEvents(ts \ {m}, g)

\* event_generator::events(t_from, t_to) of generator g of a cell.
generator_events(cell, g, t_from, t_to) ==
    TimesToEvents({t \in Generators(cell)[g] : t_from <= t /\ t < t_to}, g)

\* The loop of merge_cell_events over the generators from g on: the spans
\* pushed on spanbuf, the empty ones left out.
RECURSIVE generator_spans(_, _, _, _)
generator_spans(cell, g, t_from, t_to) ==
    IF g > Len(Generators(cell)) THEN <<>>
    ELSE LET evs == generator_events(cell, g, t_from, t_to)
         IN  (IF evs # <<>> THEN <<evs>> ELSE <<>>)
             \o generator_spans(cell, g + 1, t_from, t_to)

\* merge_cell_events without the removal of the consumed prefix of old_events.
merge_cell_events_keep_old(t_from, t_to, old_in, pending_in, cell) ==
    IF Generators(cell) # <<>>
    THEN LET old_split == split_sorted_range(old_in, t_to)
             pending_split == split_sorted_range(pending_in, t_to)
             spanbuf == <<old_split.first, pending_split.first>>
                        \o generator_spans(cell, 1, t_from, t_to)
         IN  tree_merge_events(spanbuf)
             \o StdMerge(pending_split.second, old_split.second)
    ELSE StdMerge(pending_in, old_in)

\* merge_cell_events with the arguments of the two-way merge in the order old
\* events, pending events.
merge_cell_events_old_first(t_from, t_to, old_in, pending_in, cell) ==
    LET old_events == split_sorted_range(old_in, t_from).second
    IN  IF Generators(cell) # <<>>
        THEN LET old_split == split_sorted_range(old_events, t_to)
                 pending_split == split_sorted_range(pending_in, t_to)
                 spanbuf == <<old_split.first, pending_split.first>>
                            \o generator_spans(cell, 1, t_from, t_to)
             IN  tree_merge_events(spanbuf)
                 \o StdMerge(old_split.second, pending_split.second)
        ELSE StdMerge(old_events, pending_in)

\* merge_cell_events: the new lane of a cell.
merge_cell_events(t_from, t_to, old_in, pending_in, cell) ==
    LET old_events == split_sorted_range(old_in, t_from).second
    IN  IF Generators(cell) # <<>>
        THEN LET old_split == split_sorted_range(old_events, t_to)
                 pending_split == split_sorted_range(pending_in, t_to)
                 spanbuf == <<old_split.first, pending_split.first>>
                            \o generator_spans(cell, 1, t_from, t_to)
             IN  tree_merge_events(spanbuf)
                 \o StdMerge(pending_split.second, old_split.second)
        ELSE StdMerge(pending_in, old_events)

(* --------------------------- communicator ------------------------------ *)

\* A spike: source gid and time; k is the id of the epoch whose Update
\* emitted it.
Spike(src, t, k) == [source |-> src, time |-> t, k |-> k]

\* communicator::exchange on the modelled rank: the global spikes are the
\* local ones.
exchange_spikes(local) == local

\* The events one cell receives from a sequence of global spikes, in spike
\* order: one event per connection from the spike's source to the cell,
\* at the spike time plus the connection delay.
RECURSIVE EventsFor(_, _, _)
EventsFor(cell, spikes, mind) ==
    IF spikes = <<>> THEN <<>>
    ELSE LET sp == Head(spikes)
             cs == {c \in Connections : c.src = sp.source /\ c.dst = cell}
         IN  (IF cs = {} THEN <<>>
              ELSE LET c == CHOOSE x \in cs : TRUE
                   IN  <<Ev(sp.time + mind + c.extra, c.weight, "spk", sp.time, sp.k)>>)
             \o EventsFor(cell, Tail(spikes), mind)

\* communicator::make_event_queues: append the events to the pending buffers.
make_event_queues(global_spikes, queues, mind) ==
    [i \in Cells |-> queues[i] \o EventsFor(i, global_spikes, mind)]

(* ------------------------------ state ---------------------------------- *)

VARIABLES
    min_delay,          \* communicator_.min_delay()
    t_interval_,        \* maximum epoch duration
    epoch_,             \* last computed epoch
    pending_events_,    \* per cell: events to be delivered
    event_lanes_,       \* two buffers of per-cell lanes
    local_spikes_,      \* two spike stores
    gen_clock,          \* per cell: how far its generators have been asked
    num_spikes_,        \* communicator_.num_spikes()
    pc,                 \* position of the caller inside run(), or "idle"
    tfinal, prev, current, next,    \* argument and locals of run()
    work,               \* per thread: the phases it still has to execute
    prog,               \* per thread: progress of its first phase
    all_local_spikes,   \* local of the exchange lambda
    outcome,            \* how the last API call went
    ret,                \* last value returned by run() (0 after reset())
    hist_spikes,        \* spikes emitted since construction or reset()
    hist_seen,          \* events handed to advance() with time < t1
    hist_inj,           \* events appended by inject_events()
    lane_ep,            \* per lane: the epoch whose Enqueue built it
    adv_t1,             \* per group: t1 of its last completed advance()
    done,               \* per phase kind: id of the last completed phase
    last_upd,           \* the epoch of the last Update started
    ninject,            \* inject_events() calls made
    expect,             \* what the batch in flight yields, its tasks run in turn
    merge_pc,           \* a bare call of merge_cell_events: where it stands
    merge_in,           \* its arguments
    merge_out           \* its new_events

progvars == <<min_delay, t_interval_, epoch_, pending_events_, event_lanes_,
              local_spikes_, gen_clock, num_spikes_>>
runvars == <<pc, tfinal, prev, current, next, work, prog, all_local_spikes>>
apivars == <<outcome, ret>>
histvars == <<hist_spikes, hist_seen, hist_inj, lane_ep, adv_t1, done,
              last_upd, ninject>>
mergevars == <<merge_pc, merge_in, merge_out>>
auxvars == <<expect, mergevars>>
vars == <<progvars, runvars, apivars, histvars, auxvars>>

\* One buffer for the epochs of both parities.
parity_single(id) == 0

\* event_lanes(epoch_id) and local_spikes(epoch_id): the buffer of a parity.
Parity(id) == id % 2

Phase(kind, ep) == [kind |-> kind, ep |-> ep]
Fresh == [started |-> FALSE, done |-> {}]
NoWork == [th \in Threads |-> <<>>]
NoProg == [th \in Threads |-> Fresh]
NoLaneEp == [id |-> 0, t0 |-> 0, t1 |-> 0, first |-> FALSE]

\* No phase of any kind has completed.
NoPhases == [E |-> -1, U |-> -1, D |-> -1]

EmptyLanes == [p \in {0, 1} |-> [i \in Cells |-> <<>>]]
EmptyStores == [p \in {0, 1} |-> <<>>]

\* No batch is in flight.
NoExpect == [lanes |-> EmptyLanes, pending |-> [i \in Cells |-> <<>>], gathered |-> <<>>]

\* The arguments when no bare call of merge_cell_events is made.
NoMergeIn == [t_from |-> 0, t_to |-> 0, old_events |-> <<>>, pending |-> <<>>, cell |-> 1]

\* simulation_state::simulation_state for a recipe with minimum delay md.
Constructed(md) ==
    /\ min_delay = md
    /\ t_interval_ = min_delay \div 2
    /\ epoch_ = EpochZero
    /\ pending_events_ = [i \in Cells |-> <<>>]
    /\ event_lanes_ = EmptyLanes
    /\ local_spikes_ = EmptyStores
    /\ gen_clock = [i \in Cells |-> 0]
    /\ num_spikes_ = 0
    /\ pc = "idle"
    /\ tfinal = 0 /\ prev = EpochZero /\ current = EpochZero /\ next = EpochZero
    /\ work = NoWork
    /\ prog = NoProg
    /\ all_local_spikes = <<>>
    /\ outcome = "constructed" /\ ret = 0
    /\ hist_spikes = {} /\ hist_seen = {} /\ hist_inj = {}
    /\ lane_ep = [p \in {0, 1} |-> [i \in Cells |-> NoLaneEp]]
    /\ adv_t1 = [g \in Groups |-> 0]
    /\ done = NoPhases
    /\ last_upd = EpochZero
    /\ ninject = 0
    /\ expect = NoExpect

\* No bare call of merge_cell_events is made.
NoMergeCall == merge_pc = "unused" /\ merge_in = NoMergeIn /\ merge_out = <<>>

Init == (\E md \in MinDelays : Constructed(md)) /\ NoMergeCall

(* ------------------------- the schedule of run() ----------------------- *)

\* next.empty(): enqueue(current); update(current); exchange(current).
single_schedule(cur) == <<Phase("E", cur), Phase("U", cur), Phase("D", cur)>>

\* enqueue(current) ahead of the first batch.
first_enqueue(cur) == <<Phase("E", cur)>>

\* The first batch with the current epoch enqueued in place of the next.
first_batch_enqueue_current(cur, nxt) ==
    [a |-> <<Phase("E", cur)>>, b |-> <<Phase("U", cur)>>]

\* g.run(enqueue(next)); g.run(update(current)); g.wait().
first_batch(cur, nxt) ==
    [a |-> <<Phase("E", nxt)>>, b |-> <<Phase("U", cur)>>]

\* The loop batch with the spikes of the current epoch exchanged.
loop_batch_exchange_current(prv, cur, nxt) ==
    [a |-> <<Phase("D", cur), Phase("E", nxt)>>, b |-> <<Phase("U", cur)>>]

\* The loop batch with the enqueue ahead of the exchange.
loop_batch_enqueue_first(prv, cur, nxt) ==
    [a |-> <<Phase("E", nxt), Phase("D", prv)>>, b |-> <<Phase("U", cur)>>]

\* g.run(exchange(prev); enqueue(next)); g.run(update(current)); g.wait().
loop_batch(prv, cur, nxt) ==
    [a |-> <<Phase("D", prv), Phase("E", nxt)>>, b |-> <<Phase("U", cur)>>]

\* g.run(exchange(prev)); g.run(update(current)); g.wait().
last_batch(prv, cur) ==
    [a |-> <<Phase("D", prv)>>, b |-> <<Phase("U", cur)>>]

\* The closing exchange left out.
final_exchange_missing(cur) == <<>>

\* exchange(current) after the last batch.
final_exchange(cur) == <<Phase("D", cur)>>

Spawn(batch) == [main |-> <<>>, a |-> batch.a, b |-> batch.b]
TasksDone == work["a"] = <<>> /\ work["b"] = <<>>

(* --------------------------- the phases -------------------------------- *)

HeadIs(th, kind) == work[th] # <<>> /\ Head(work[th]).kind = kind

\* What is left of the thread's first phase once the items in d are done:
\* the phase is over when every item of all is done.
Advance(th, d, all) ==
    IF d = all
    THEN /\ work' = [work EXCEPT ![th] = Tail(@)]
         /\ prog' = [prog EXCEPT ![th] = Fresh]
    ELSE /\ work' = work
         /\ prog' = [prog EXCEPT ![th] = [started |-> TRUE, done |-> d]]

\* One iteration of the foreach_cell of the enqueue lambda.
EnqueueCell(th, i) ==
    /\ HeadIs(th, "E")
    /\ i \notin prog[th].done
    /\ LET ep == Head(work[th]).ep
           pending == Sort(pending_events_[i])
           old_events == event_lanes_[Parity(ep.id - 1)][i]
           new_events == merge_cell_events(ep.t0, ep.t1, old_events, pending, i)
           d == prog[th].done \cup {i}
       IN  /\ event_lanes_' = [event_lanes_ EXCEPT ![Parity(ep.id)][i] = new_events]
           /\ pending_events_' = [pending_events_ EXCEPT ![i] = <<>>]
           /\ gen_clock' = [gen_clock EXCEPT
                               ![i] = IF GenTimes(i) # {} THEN ep.t1 ELSE @]
           /\ lane_ep' = [lane_ep EXCEPT ![Parity(ep.id)][i] =
                             [id |-> ep.id, t0 |-> ep.t0, t1 |-> ep.t1,
                              first |-> (ep.id = epoch_.id + 1)]]
           /\ done' = IF d = Cells THEN [done EXCEPT !.E = ep.id] ELSE done
           /\ Advance(th, d, Cells)
    /\ UNCHANGED <<min_delay, t_interval_, epoch_, local_spikes_, num_spikes_>>
    /\ UNCHANGED <<pc, tfinal, prev, current, next, all_local_spikes>>
    /\ UNCHANGED apivars
    /\ UNCHANGED <<hist_spikes, hist_seen, hist_inj, adv_t1, last_upd, ninject>>
    /\ UNCHANGED auxvars

\* A clear() that leaves the store as it is.
store_clear_skipped(store) == store

\* thread_private_spike_store::clear
store_clear(store) == <<>>

\* local_spikes(current.id).clear() at the start of the update lambda.
UpdateClear(th) ==
    /\ HeadIs(th, "U")
    /\ ~prog[th].started
    /\ LET ep == Head(work[th]).ep
       IN  /\ local_spikes_' = [local_spikes_ EXCEPT ![Parity(ep.id)] = store_clear(@)]
           /\ last_upd' = ep
    /\ prog' = [prog EXCEPT ![th] = [started |-> TRUE, done |-> {}]]
    /\ UNCHANGED <<min_delay, t_interval_, epoch_, pending_events_, event_lanes_,
                   gen_clock, num_spikes_>>
    /\ UNCHANGED <<pc, tfinal, prev, current, next, work, all_local_spikes>>
    /\ UNCHANGED apivars
    /\ UNCHANGED <<hist_spikes, hist_seen, hist_inj, lane_ep, adv_t1, done, ninject>>
    /\ UNCHANGED auxvars

RECURSIVE SpikeSeq(_)
SpikeSeq(S) ==
    IF S = {} THEN <<>>
    ELSE LET m == CHOOSE x \in S : \A y \in S :
                      x.time < y.time \/ (x.time = y.time /\ x.source <= y.source)
         IN  <<m>> \o SpikeSeq(S \ {m})

\* The spikes a group may report from advance(ep, ...): its cells fire at
\* times of the epoch.
GroupSpikes(g, ep) ==
    {Spike(GidOf(c), t, ep.id) :
        c \in group_queue_range(g) \cap SpikingCells, t \in ep.t0..(ep.t1 - 1)}

\* The events of its lanes that advance(ep, ...) takes as due: time < ep.t1.
Handed(g, ep, lanes) ==
    UNION {{[cell |-> c, ev |-> lanes[c][n], id |-> ep.id, t0 |-> ep.t0, t1 |-> ep.t1] :
               n \in {m \in 1..Len(lanes[c]) : lanes[c][m].time < ep.t1}} :
           c \in group_queue_range(g)}

\* One iteration of the foreach_group_index of the update lambda: the group
\* advances over its lanes and its spikes are inserted in the store.
UpdateGroup(th, g) ==
    /\ HeadIs(th, "U")
    /\ prog[th].started
    /\ g \notin prog[th].done
    /\ LET ep == Head(work[th]).ep
           d == prog[th].done \cup {g}
       IN  \E S \in SUBSET GroupSpikes(g, ep) :
             /\ Cardinality(S) <= MaxSpikesPerAdvance
             /\ Cardinality(hist_spikes) + Cardinality(S) <= MaxSpikes
             /\ local_spikes_' = [local_spikes_ EXCEPT ![Parity(ep.id)] = @ \o SpikeSeq(S)]
             /\ hist_spikes' = hist_spikes \cup S
             /\ hist_seen' = hist_seen \cup Handed(g, ep, event_lanes_[Parity(ep.id)])
             /\ adv_t1' = [adv_t1 EXCEPT ![g] = ep.t1]
             /\ done' = IF d = Groups THEN [done EXCEPT !.U = ep.id] ELSE done
             /\ Advance(th, d, Groups)
    /\ UNCHANGED <<min_delay, t_interval_, epoch_, pending_events_, event_lanes_,
                   gen_clock, num_spikes_>>
    /\ UNCHANGED <<pc, tfinal, prev, current, next, all_local_spikes>>
    /\ UNCHANGED apivars
    /\ UNCHANGED <<hist_inj, lane_ep, last_upd, ninject>>
    /\ UNCHANGED auxvars

\* local_spikes(prev.id).gather() at the start of the exchange lambda.
ExchangeGather(th) ==
    /\ HeadIs(th, "D")
    /\ ~prog[th].started
    /\ all_local_spikes' = local_spikes_[Parity(Head(work[th]).ep.id)]
    /\ prog' = [prog EXCEPT ![th] = [started |-> TRUE, done |-> {}]]
    /\ UNCHANGED progvars
    /\ UNCHANGED <<pc, tfinal, prev, current, next, work>>
    /\ UNCHANGED apivars
    /\ UNCHANGED histvars
    /\ UNCHANGED auxvars

\* The rest of the exchange lambda: communicator_.exchange and
\* communicator_.make_event_queues.
ExchangeDeliver(th) ==
    /\ HeadIs(th, "D")
    /\ prog[th].started
    /\ LET global_spikes == exchange_spikes(all_local_spikes)
       IN  /\ pending_events_' = make_event_queues(global_spikes, pending_events_, min_delay)
           /\ num_spikes_' = num_spikes_ + Len(global_spikes)
    /\ all_local_spikes' = <<>>
    /\ done' = [done EXCEPT !.D = Head(work[th]).ep.id]
    /\ Advance(th, {}, {})
    /\ UNCHANGED <<min_delay, t_interval_, epoch_, event_lanes_, local_spikes_, gen_clock>>
    /\ UNCHANGED <<pc, tfinal, prev, current, next>>
    /\ UNCHANGED apivars
    /\ UNCHANGED <<hist_spikes, hist_seen, hist_inj, lane_ep, adv_t1, last_upd, ninject>>
    /\ UNCHANGED auxvars

(* ---------------------- what the phases read and write ---------------- *)

\* The lane buffers (parity, cell) a phase reads: the enqueue lambda reads
\* the lanes of the epoch before its own as old_events, the update lambda
\* hands the lanes of its epoch to the groups.
LaneReads(ph) ==
    IF ph.kind = "E" THEN {<<Parity(ph.ep.id - 1), i>> : i \in Cells}
    ELSE IF ph.kind = "U"
    THEN {<<Parity(ph.ep.id), c>> : c \in UNION {group_queue_range(g) : g \in Groups}}
    ELSE {}

\* The lane buffers a phase writes: the enqueue lambda builds the lanes of
\* its epoch.
LaneWrites(ph) ==
    IF ph.kind = "E" THEN {<<Parity(ph.ep.id), i>> : i \in Cells} ELSE {}

(* ------------------- a batch with its tasks run in turn ---------------- *)

\* The exchange lambda run from the buffers st with no other task at work.
exchange_result(ep, st) ==
    [lanes |-> st.lanes,
     pending |-> make_event_queues(exchange_spikes(st.stores[Parity(ep.id)]),
                                   st.pending, min_delay),
     stores |-> st.stores,
     gathered |-> st.stores[Parity(ep.id)]]

\* The enqueue lambda run from the buffers st with no other task at work.
enqueue_result(ep, st) ==
    [lanes |-> [st.lanes EXCEPT ![Parity(ep.id)] =
                  [i \in Cells |->
                      merge_cell_events(ep.t0, ep.t1, st.lanes[Parity(ep.id - 1)][i],
                                        Sort(st.pending[i]), i)]],
     pending |-> [i \in Cells |-> <<>>],
     stores |-> st.stores,
     gathered |-> st.gathered]

\* The phases of one task run one after the other.
RECURSIVE InTurn(_, _)
InTurn(phases, st) ==
    IF phases = <<>> THEN st
    ELSE InTurn(Tail(phases),
                IF Head(phases).kind = "D" THEN exchange_result(Head(phases).ep, st)
                ELSE IF Head(phases).kind = "E" THEN enqueue_result(Head(phases).ep, st)
                ELSE st)

\* What the lanes and the pending buffers hold after g.wait(), and what the
\* batch's exchange gathers, when the first task runs to its end before the
\* second starts; the update lambda of the second writes neither.
Expected(batch) ==
    LET st == InTurn(batch.a, [lanes |-> event_lanes_, pending |-> pending_events_,
                               stores |-> local_spikes_, gathered |-> <<>>])
    IN  [lanes |-> st.lanes, pending |-> st.pending, gathered |-> st.gathered]

(* ------------------------------ run() ---------------------------------- *)

Idle == pc = "idle"

\* simulation::run with dt <= 0: the domain error, nothing else happens.
RunBadDt(tf, dt) ==
    /\ Idle
    /\ dt <= 0
    /\ outcome' = "domain_error"
    /\ UNCHANGED <<progvars, runvars, ret, histvars>>
    /\ UNCHANGED auxvars

\* The test of the early return of run() with < for <=.
early_return_strict(tf, e) == tf < e.t1

\* if (tfinal<=epoch_.t1) return epoch_.t1;
early_return(tf, e) == tf <= e.t1

\* The early return of run() handing back tfinal.
early_return_tfinal(tf, e) == tf

\* return epoch_.t1; of the early return.
early_return_value(tf, e) == e.t1

\* run(tfinal, dt) that returns at once.
RunNoop(tf, dt) ==
    /\ Idle
    /\ dt > 0
    /\ early_return(tf, epoch_)
    /\ outcome' = "returned_early"
    /\ ret' = early_return_value(tf, epoch_)
    /\ UNCHANGED <<progvars, runvars, histvars>>
    /\ UNCHANGED auxvars

\* run(tfinal, dt) up to the choice of the branch: the three epochs are
\* computed and the caller starts on enqueue(current).
RunStart(tf, dt) ==
    /\ Idle
    /\ dt > 0
    /\ ~early_return(tf, epoch_)
    /\ LET cur == next_epoch(epoch_, t_interval_, tf)
           nxt == next_epoch(cur, t_interval_, tf)
       IN  /\ prev' = epoch_
           /\ current' = cur
           /\ next' = nxt
           /\ IF empty(nxt)
              THEN /\ pc' = "single"
                   /\ work' = [work EXCEPT !["main"] = single_schedule(cur)]
              ELSE /\ pc' = "first"
                   /\ work' = [work EXCEPT !["main"] = first_enqueue(cur)]
    /\ tfinal' = tf
    /\ outcome' = "running"
    /\ UNCHANGED <<progvars, prog, all_local_spikes, ret, histvars>>
    /\ UNCHANGED auxvars

\* After enqueue(current): the first batch is handed to the task group.
FirstBatch ==
    /\ pc = "first"
    /\ work["main"] = <<>>
    /\ work' = Spawn(first_batch(current, next))
    /\ pc' = "wait"
    /\ UNCHANGED <<progvars, tfinal, prev, current, next, prog, all_local_spikes,
                   apivars, histvars>>
    /\ expect' = Expected(first_batch(current, next))
    /\ UNCHANGED mergevars

\* g.wait() returns and the loop goes round: another batch.
LoopContinue ==
    /\ pc = "wait"
    /\ TasksDone
    /\ LET nxt == next_epoch(next, t_interval_, tfinal)
       IN  /\ ~empty(nxt)
           /\ prev' = current
           /\ current' = next
           /\ next' = nxt
           /\ work' = Spawn(loop_batch(current, next, nxt))
    /\ pc' = "wait"
    /\ expect' = Expected(loop_batch(current, next,
                                     next_epoch(next, t_interval_, tfinal)))
    /\ UNCHANGED <<progvars, tfinal, prog, all_local_spikes, apivars, histvars>>
    /\ UNCHANGED mergevars

\* g.wait() returns and the loop is left: the last batch.
LoopBreak ==
    /\ pc = "wait"
    /\ TasksDone
    /\ LET nxt == next_epoch(next, t_interval_, tfinal)
       IN  /\ empty(nxt)
           /\ prev' = current
           /\ current' = next
           /\ next' = nxt
           /\ work' = Spawn(last_batch(current, next))
    /\ pc' = "last"
    /\ UNCHANGED <<progvars, tfinal, prog, all_local_spikes, apivars, histvars>>
    /\ expect' = Expected(last_batch(current, next))
    /\ UNCHANGED mergevars

\* After the last batch: exchange(current) on the caller.
FinalExchange ==
    /\ pc = "last"
    /\ TasksDone
    /\ work' = [work EXCEPT !["main"] = final_exchange(current)]
    /\ pc' = "final"
    /\ UNCHANGED <<progvars, tfinal, prev, current, next, prog, all_local_spikes,
                   apivars, histvars>>
    /\ expect' = NoExpect
    /\ UNCHANGED mergevars

\* epoch_ = current; return current.t1;
RunReturn ==
    /\ pc \in {"single", "final"}
    /\ work["main"] = <<>>
    /\ epoch_' = current
    /\ ret' = current.t1
    /\ outcome' = "returned"
    /\ pc' = "idle"
    /\ tfinal' = 0 /\ prev' = EpochZero /\ current' = EpochZero /\ next' = EpochZero
    /\ UNCHANGED <<min_delay, t_interval_, pending_events_, event_lanes_,
                   local_spikes_, gen_clock, num_spikes_>>
    /\ UNCHANGED <<work, prog, all_local_spikes, histvars>>
    /\ UNCHANGED auxvars

(* ------------------------ inject_events, reset ------------------------- *)

InjWeight == 0

\* The loops of inject_events over the events (gid, time) in iteration order
\* from the buffers q: the buffers reached and whether an event was refused.
RECURSIVE inject_loop(_, _, _)
inject_loop(events, q, t1) ==
    IF events = <<>> THEN [pending |-> q, thrown |-> FALSE]
    ELSE LET e == Head(events)
             lidx == gid_to_local(e.gid)
         IN  IF e.time < t1 THEN [pending |-> q, thrown |-> TRUE]
             ELSE inject_loop(Tail(events),
                      IF lidx # 0
                      THEN [q EXCEPT ![lidx] = Append(@, Ev(e.time, InjWeight, "inj", 0, 0))]
                      ELSE q,
                      t1)

\* The events the loops appended: those ahead of the first refused one that
\* go to a local cell.
RECURSIVE Accepted(_, _)
Accepted(events, t1) ==
    IF events = <<>> \/ Head(events).time < t1 THEN {}
    ELSE (IF gid_to_local(Head(events).gid) # 0
          THEN {[cell |-> gid_to_local(Head(events).gid),
                 ev |-> Ev(Head(events).time, InjWeight, "inj", 0, 0)]}
          ELSE {})
         \cup Accepted(Tail(events), t1)

\* The arguments tried: up to MaxInjectLen events in iteration order, each
\* for gid 0 at current.t1 (the earliest time accepted), for gid 1 one tick
\* before (refused) or after current.t1, or for the foreign gid at any of
\* the three times.
InjectEvent ==
    {e \in [gid : AllGids, time : (epoch_.t1 - 1)..(epoch_.t1 + 1)] :
        /\ e.time >= 0 /\ e.time <= MaxT
        /\ e.gid = 0 => e.time = epoch_.t1
        /\ e.gid = 1 => e.time # epoch_.t1}
InjectArgs == UNION {[1..n -> InjectEvent] : n \in 1..MaxInjectLen}

\* simulation_state::inject_events
InjectEvents(events) ==
    /\ Idle
    /\ ninject < MaxInjectCalls
    /\ LET r == inject_loop(events, pending_events_, epoch_.t1)
       IN  /\ pending_events_' = r.pending
           /\ outcome' = IF r.thrown THEN "bad_event_time" ELSE "injected"
    /\ hist_inj' = hist_inj \cup Accepted(events, epoch_.t1)
    /\ ninject' = ninject + 1
    /\ UNCHANGED <<min_delay, t_interval_, epoch_, event_lanes_, local_spikes_,
                   gen_clock, num_spikes_>>
    /\ UNCHANGED <<runvars, ret>>
    /\ UNCHANGED <<hist_spikes, hist_seen, lane_ep, adv_t1, done, last_upd>>
    /\ UNCHANGED auxvars

\* reset() that leaves the pending buffers alone.
reset_pending_kept(q) == q

\* The loop of reset() over pending_events_.
reset_pending(q) == [i \in Cells |-> <<>>]

\* The simulation has run, and holds pending events, lane events and spikes.
Used ==
    /\ epoch_ # EpochZero
    /\ \E i \in Cells : pending_events_[i] # <<>>
    /\ \E p \in {0, 1} : \E i \in Cells : event_lanes_[p][i] # <<>>
    /\ \E p \in {0, 1} : local_spikes_[p] # <<>>

\* simulation_state::reset
Reset ==
    /\ Idle
    /\ epoch_' = EpochZero
    /\ event_lanes_' = EmptyLanes
    /\ gen_clock' = [i \in Cells |-> 0]
    /\ pending_events_' = reset_pending(pending_events_)
    /\ num_spikes_' = 0
    /\ local_spikes_' = EmptyStores
    /\ outcome' = IF Used THEN "reset" ELSE "reset_fresh"
    /\ ret' = 0
    /\ hist_spikes' = {} /\ hist_seen' = {} /\ hist_inj' = {}
    /\ lane_ep' = [p \in {0, 1} |-> [i \in Cells |-> NoLaneEp]]
    /\ adv_t1' = [g \in Groups |-> 0]
    /\ done' = NoPhases
    /\ last_upd' = EpochZero
    /\ ninject' = 0
    /\ UNCHANGED <<min_delay, t_interval_, runvars>>
    /\ UNCHANGED auxvars

(* --------------------------- specification ----------------------------- *)

DtValues == {0, 1}

Step ==
    \/ \E th \in Threads : \E i \in Cells : EnqueueCell(th, i)
    \/ \E th \in Threads : UpdateClear(th)
    \/ \E th \in Threads : \E g \in Groups : UpdateGroup(th, g)
    \/ \E th \in Threads : ExchangeGather(th)
    \/ \E th \in Threads : ExchangeDeliver(th)
    \/ FirstBatch
    \/ LoopContinue
    \/ LoopBreak
    \/ FinalExchange
    \/ RunReturn

Next ==
    \/ \E tf \in 0..MaxT : \E dt \in DtValues : RunBadDt(tf, dt)
    \/ \E tf \in 0..MaxT : \E dt \in DtValues : RunNoop(tf, dt)
    \/ \E tf \in 0..MaxT : \E dt \in DtValues : RunStart(tf, dt)
    \/ \E events \in InjectArgs : InjectEvents(events)
    \/ Reset
    \/ Step

Spec == Init /\ [][Next]_vars

\* The calls of a client that injects no events.
NextNoInject ==
    \/ \E tf \in 0..MaxT : \E dt \in DtValues : RunBadDt(tf, dt)
    \/ \E tf \in 0..MaxT : \E dt \in DtValues : RunNoop(tf, dt)
    \/ \E tf \in 0..MaxT : \E dt \in DtValues : RunStart(tf, dt)
    \/ Reset
    \/ Step

\* The same client under the scheduler's guarantee: the task pool runs every
\* task it was given and the caller goes on when they are done.
FairSpec == Init /\ [][NextNoInject]_vars /\ WF_vars(Step)

\* Scenario S2 in ticks: a recipe with minimum delay 2 (t_interval 1), whose
\* generator fires at 1, 3 and 5, and one call run(6, 1) on the fresh
\* simulation.
S2Init == Constructed(2) /\ NoMergeCall

S2Next ==
    \/ RunStart(6, 1)
    \/ Step

S2Spec == S2Init /\ [][S2Next]_vars

(* ----------------------- merge_cell_events alone ----------------------- *)

\* The events of one input stream: any time, two weights (one of them that
\* of the generator events), the stream as org.
StreamEvents(org) ==
    {Ev(t, w, org, 0, 0) : t \in 0..MergeMaxT, w \in {0, GenWeight}}

\* The generator vectors a bare call is given: those of the cells and the
\* vector of two generators.
MergeCells == Cells \cup {3}

\* The time-sorted sequences of n events of a stream.
SortedSeqs(n, org) ==
    {q \in [1..n -> StreamEvents(org)] :
        \A m \in 1..(n - 1) : q[m].time <= q[m + 1].time}

\* A call merge_cell_events(t_from, t_to, old_events, pending, generators,
\* new_events) with t_from <= t_to, time-sorted old_events and pending, and
\* any of the generator vectors.
MergeInit ==
    /\ \E md \in MinDelays : Constructed(md)
    /\ merge_pc = "called"
    /\ merge_out = <<>>
    /\ \E n \in 0..MergeMaxLen : \E m \in 0..(MergeMaxLen - n) :
       \E old \in SortedSeqs(n, "old") : \E pnd \in SortedSeqs(m, "pend") :
       \E t_from \in 0..MergeMaxT : \E t_to \in t_from..MergeMaxT :
       \E cell \in MergeCells :
          merge_in = [t_from |-> t_from, t_to |-> t_to, old_events |-> old,
                      pending |-> pnd, cell |-> cell]

\* The call returns with new_events filled.
MergeCellEvents ==
    /\ merge_pc = "called"
    /\ merge_out' = merge_cell_events(merge_in.t_from, merge_in.t_to,
                                      merge_in.old_events, merge_in.pending,
                                      merge_in.cell)
    /\ merge_pc' = "returned"
    /\ UNCHANGED <<merge_in, progvars, runvars, apivars, histvars, expect>>

MergeNext == MergeCellEvents

MergeSpec == MergeInit /\ [][MergeNext]_vars

(* ------------------------------ claims --------------------------------- *)

\* The lanes an Update in progress is about to hand to a group: thread,
\* group, cell and the epoch of the Update.
AboutToRead ==
    {x \in [th : Threads, g : Groups, c : Cells] :
        /\ HeadIs(x.th, "U")
        /\ prog[x.th].started
        /\ x.g \notin prog[x.th].done
        /\ x.c \in group_queue_range(x.g)}

ReadEpoch(x) == Head(work[x.th]).ep
ReadLane(x) == event_lanes_[Parity(ReadEpoch(x).id)][x.c]
SpikeEvents(seq) == {seq[n] : n \in {m \in 1..Len(seq) : seq[m].org = "spk"}}

\* C1 as stated: the lane read by U(j) holds no event made from a spike
\* emitted during U(j) or during U(j-1).
C1_NoEventOfLastTwoEpochs ==
    \A x \in AboutToRead : \A e \in SpikeEvents(ReadLane(x)) :
        e.k # ReadEpoch(x).id /\ e.k # ReadEpoch(x).id - 1

\* C1 amended: the lane read by U(j) holds no event of a spike emitted
\* during U(j) or later; it holds an event of a spike emitted during U(j-1)
\* only when epoch j is the first epoch of a run() call, and such an event
\* has a time not below t1(j), so that it is not due in epoch j.
C1_SpikesVisibleTwoEpochsLater ==
    \A x \in AboutToRead : \A e \in SpikeEvents(ReadLane(x)) :
        LET ep == ReadEpoch(x)
        IN  /\ e.k < ep.id
            /\ e.k = ep.id - 1 => (ep.id = epoch_.id + 1 /\ e.time >= ep.t1)

\* C1 witness: an Update is about to read a lane holding an event of a spike
\* emitted two epochs earlier, in the same run() call.
C1_Witness ==
    \E x \in AboutToRead : \E e \in SpikeEvents(ReadLane(x)) :
        e.k = ReadEpoch(x).id - 2 /\ epoch_.id < e.k

\* The event a connection makes of a spike.
EventOf(sp, c) == Ev(sp.time + min_delay + c.extra, c.weight, "spk", sp.time, sp.k)

\* The group that owns a cell.
GroupOf(cell) == CHOOSE g \in Groups : cell \in group_queue_range(g)

\* An event was handed to the advance() of the epoch that contains its time.
SeenInWindow(cell, e) ==
    \E r \in hist_seen : r.cell = cell /\ r.ev = e /\ r.t0 <= e.time /\ e.time < r.t1

\* C2: every event made from a spike is handed to the target's advance() in
\* the epoch whose window contains its time, as soon as that epoch's Update
\* has advanced the target, and is handed to advance() as due in no other epoch.
C2_SpikeEventInItsEpoch ==
    /\ \A sp \in hist_spikes : \A c \in Connections :
          (c.src = sp.source /\ adv_t1[GroupOf(c.dst)] > EventOf(sp, c).time)
              => SeenInWindow(c.dst, EventOf(sp, c))
    /\ \A r \in hist_seen :
          r.ev.org = "spk" => (r.t0 <= r.ev.time /\ r.ev.time < r.t1)

\* C2 witness (scenario S3 in ticks: spike at 1, delay 4, t_interval 2): the
\* event at 5 was handed to the Update of the epoch [4, 6).
C2_Witness ==
    \E r \in hist_seen :
        /\ r.ev.org = "spk" /\ r.ev.s = 1 /\ r.ev.time = 5
        /\ r.t0 = 4 /\ r.t1 = 6 /\ r.id = 3

HasPastEvent(events) == \E n \in 1..Len(events) : events[n].time < epoch_.t1

\* C3 as stated: inject_events with an event before current.t1 raises the
\* error and leaves every pending buffer as it was.
C3_RejectedInjectionKeepsPending ==
    [][\A events \in InjectArgs :
          (InjectEvents(events) /\ HasPastEvent(events))
              => (outcome' = "bad_event_time" /\ pending_events_' = pending_events_)]_vars

ReturnedRun == pc = "idle" /\ outcome \in {"returned", "returned_early"}

\* The events of spikes that the Exchange phases have delivered to a cell and
\* that no Enqueue has taken yet, at a return with recorded epoch id k: those
\* of D(k), and those of D(k-1) unless E(k) opened its run() call.
NotYetEnqueued(i) ==
    {EventOf(sp, c) : <<sp, c>> \in
        {x \in hist_spikes \X Connections :
            /\ x[2].src = x[1].source /\ x[2].dst = i
            /\ \/ x[1].k = epoch_.id
               \/ x[1].k = epoch_.id - 1 /\ ~lane_ep[Parity(epoch_.id)][i].first}}

PipelineDrained ==
    /\ \A th \in Threads : work[th] = <<>> /\ ~prog[th].started
    /\ done.U = epoch_.id
    /\ done.D = epoch_.id
    /\ \A i \in Cells : SpikeEvents(pending_events_[i]) = NotYetEnqueued(i)

\* C4 as stated: after every return of run() with recorded epoch id k, U(k)
\* and D(k) have completed, no phase is running and the pending buffers hold
\* the events of the Exchange phases not yet enqueued.
C4_EveryReturnDrained == ReturnedRun => PipelineDrained

\* C4 amended: the same after every return of run() once an epoch has been
\* executed since construction or reset() (recorded epoch id k >= 1).
C4_ReturnDrainedAfterAnEpoch == (ReturnedRun /\ epoch_.id >= 1) => PipelineDrained

\* C4 witness: run() has returned with the events of D(k-1) and of D(k) both
\* pending.
C4_Witness ==
    /\ ReturnedRun
    /\ \E i \in Cells : \E e1, e2 \in SpikeEvents(pending_events_[i]) :
          e1.k = epoch_.id - 1 /\ e2.k = epoch_.id

RunCall(tf) == \E dt \in DtValues : RunNoop(tf, dt) \/ RunStart(tf, dt)

\* C5: run(t, dt) with t <= current.t1 returns current.t1, starts no phase
\* and changes neither the recorded epoch, the lanes, the pending buffers
\* nor the spike stores.
C5_EarlyReturnChangesNothing ==
    [][\A tf \in 0..MaxT :
          (RunCall(tf) /\ tf <= epoch_.t1)
              => /\ ret' = epoch_.t1
                 /\ pc' = "idle"
                 /\ work' = work /\ prog' = prog /\ done' = done
                 /\ UNCHANGED <<epoch_, event_lanes_, pending_events_,
                                local_spikes_, gen_clock, num_spikes_>>]_vars

\* C5 witness: run() returned early on a simulation that has run and holds
\* lane events and pending events.
C5_Witness ==
    /\ pc = "idle" /\ outcome = "returned_early"
    /\ epoch_.id >= 2
    /\ \E i \in Cells : pending_events_[i] # <<>>
    /\ \E p \in {0, 1} : \E i \in Cells : event_lanes_[p][i] # <<>>

\* A step on which run(tf, dt) returns.
ReturnStep(tf) == (\E dt \in DtValues : RunNoop(tf, dt)) \/ (RunReturn /\ tfinal = tf)

\* C6 as stated: the returned times are non-decreasing and none exceeds the
\* tfinal of its call.
C6_ReturnsWithinTfinal ==
    [][\A tf \in 0..MaxT : ReturnStep(tf) => (ret' >= ret /\ ret' <= tf)]_vars

\* C6 amended: the returned times are non-decreasing; a returned time does
\* not exceed the tfinal of its call when tfinal >= current.t1, and is
\* current.t1 when tfinal < current.t1.
C6_ReturnsMonotone ==
    [][\A tf \in 0..MaxT :
          ReturnStep(tf)
              => /\ ret' >= ret
                 /\ tf >= epoch_.t1 => ret' <= tf
                 /\ tf < epoch_.t1 => ret' = epoch_.t1]_vars

\* C6 witness: a second run() has returned early with a positive time.
C6_Witness == pc = "idle" /\ outcome = "returned_early" /\ ret > 0 /\ ret = epoch_.t1

\* C7: run(tfinal, dt) with tfinal > current.t1 terminates and returns
\* tfinal; the epochs it updates follow one another from the recorded t1,
\* each non-empty, at most t_interval long, ending at
\* min(previous t1 + t_interval, tfinal), the last one ending at tfinal.
C7_RunReachesTfinal ==
    /\ [][/\ last_upd' # last_upd /\ pc # "idle"
             => /\ last_upd'.id = last_upd.id + 1
                /\ last_upd'.t0 = last_upd.t1
                /\ last_upd'.t0 < last_upd'.t1
                /\ last_upd'.t1 - last_upd'.t0 <= t_interval_
                /\ last_upd'.t1 = Min(last_upd.t1 + t_interval_, tfinal)
          /\ RunStart(tfinal', 1) => last_upd.t1 = epoch_.t1
          /\ RunReturn
             => /\ ret' = tfinal
                /\ epoch_' = last_upd
                /\ epoch_'.t1 = tfinal]_vars
    /\ (pc # "idle") ~> (pc = "idle")

\* C7 witness: run() is about to return from its third epoch, cut short by
\* tfinal.
C7_Witness ==
    /\ pc = "final" /\ work["main"] = <<>>
    /\ current.id = epoch_.id + 3
    /\ current.t1 - current.t0 < t_interval_
    /\ last_upd = current

\* The events of an argument that are for the gid of cell i, in order.
RECURSIVE ForCell(_, _)
ForCell(events, i) ==
    IF events = <<>> THEN <<>>
    ELSE (IF Head(events).gid = GidOf(i)
          THEN <<Ev(Head(events).time, InjWeight, "inj", 0, 0)>> ELSE <<>>)
         \o ForCell(Tail(events), i)

\* C8: inject_events with no event before current.t1 succeeds and appends
\* each event for a local gid to that cell's pending buffer, events for
\* other gids changing nothing; every injected event is handed to the cell's
\* advance() in the epoch that contains its time, and in no other.
C8_InjectedEventsDelivered ==
    /\ [](/\ \A r \in hist_inj :
                adv_t1[GroupOf(r.cell)] > r.ev.time => SeenInWindow(r.cell, r.ev)
          /\ \A r \in hist_seen :
                r.ev.org = "inj" => (r.t0 <= r.ev.time /\ r.ev.time < r.t1))
    /\ [][\A events \in InjectArgs :
            (InjectEvents(events) /\ ~HasPastEvent(events))
                => /\ outcome' = "injected"
                   /\ \A i \in Cells :
                         pending_events_'[i] = pending_events_[i] \o ForCell(events, i)
                   /\ UNCHANGED <<epoch_, event_lanes_, local_spikes_, pc, work>>]_vars

\* C8 witness (scenario S4): an event injected between two run() calls was
\* handed to its cell in an epoch later than the first one of the next run().
C8_Witness ==
    \E r \in hist_seen :
        /\ r.ev.org = "inj"
        /\ [cell |-> r.cell, ev |-> r.ev] \in hist_inj
        /\ r.t0 < r.ev.time
        /\ r.t0 > 0
        /\ outcome = "returned"

AllLanes == {0, 1} \X Cells

\* C9 as stated: a lane built for an epoch with t1 <= s + min_delay/2 holds
\* no event of a spike emitted at time s.
C9_NoSpikeEventOnEarlyLane ==
    \A x \in AllLanes : \A e \in SpikeEvents(event_lanes_[x[1]][x[2]]) :
        lane_ep[x[1]][x[2]].t1 > e.s + min_delay \div 2

\* C9 amended: a lane built for an epoch with t1 <= s + min_delay/2 holds an
\* event of a spike emitted at time s only when that epoch is the first epoch
\* of a run() call, and the event's time is then not below the epoch's t1.
C9_CausalityBound ==
    \A x \in AllLanes : \A e \in SpikeEvents(event_lanes_[x[1]][x[2]]) :
        \/ lane_ep[x[1]][x[2]].t1 > e.s + min_delay \div 2
        \/ lane_ep[x[1]][x[2]].first /\ e.time >= lane_ep[x[1]][x[2]].t1

\* C9 witness: a lane built inside a run() call for an epoch cut short by
\* tfinal holds an event of a spike.
C9_Witness ==
    \E x \in AllLanes : \E e \in SpikeEvents(event_lanes_[x[1]][x[2]]) :
        /\ ~lane_ep[x[1]][x[2]].first
        /\ lane_ep[x[1]][x[2]].t1 - lane_ep[x[1]][x[2]].t0 < t_interval_

\* The state the constructor leaves.
PostConstruction ==
    /\ t_interval_ = min_delay \div 2
    /\ epoch_ = [id |-> 0, t0 |-> 0, t1 |-> 0]
    /\ \A i \in Cells : pending_events_[i] = <<>> /\ gen_clock[i] = 0
    /\ \A p \in {0, 1} : \A i \in Cells : event_lanes_[p][i] = <<>>
    /\ \A p \in {0, 1} : local_spikes_[p] = <<>>
    /\ num_spikes_ = 0
    /\ pc = "idle" /\ \A th \in Threads : work[th] = <<>>

\* C10: reset() leaves the state the constructor leaves, whatever came
\* before: epoch clock at its reset value, every lane, pending buffer and
\* spike store empty.
C10_ResetRestoresConstruction ==
    [][outcome' \in {"reset", "reset_fresh"} => PostConstruction']_vars

\* C10 witness: reset() was called on a simulation that had run and held
\* pending events, lane events and spikes.
C10_Witness == outcome = "reset" /\ PostConstruction

\* A batch of two tasks is in flight, or g.wait() has just returned.
InBatch == pc \in {"wait", "last"}

\* C11: whatever the interleaving of the two tasks of a batch, the lanes and
\* the pending buffers after g.wait(), the lane an Update reads and the
\* spikes the batch's Exchange gathers are those of the batch with its tasks
\* run in turn.
C11_InterleavingsAgree ==
    InBatch =>
        /\ TasksDone =>
              (event_lanes_ = expect.lanes /\ pending_events_ = expect.pending)
        /\ \A th \in Threads :
              (HeadIs(th, "D") /\ prog[th].started)
                  => all_local_spikes = expect.gathered
        /\ \A x \in AboutToRead :
              ReadLane(x) = expect.lanes[Parity(ReadEpoch(x).id)][x.c]

\* C11 witness: a loop batch has ended whose Exchange gathered spikes while
\* its Update emitted others, and whose Enqueue put a spike event on a lane.
C11_Witness ==
    /\ pc = "wait" /\ TasksDone
    /\ expect.gathered # <<>>
    /\ local_spikes_[Parity(current.id)] # <<>>
    /\ \E i \in Cells : SpikeEvents(event_lanes_[Parity(next.id)][i]) # {}

\* The generator events handed to the advance() of the generator's cell.
S2Seen == {r \in hist_seen : r.cell = 2 /\ r.ev.org = "gen"}

\* Scenario S2 with the generator events seen in the epochs of ids: each
\* event is in the window of the epoch that saw it, is seen in one epoch
\* only, later epochs see later events, a cell that receives no spike sees
\* nothing else, and when run() has returned the events seen and the ids of
\* their epochs are those of ids.
S2Holds(ids) ==
    /\ \A r \in S2Seen : r.t0 <= r.ev.time /\ r.ev.time < r.t1
    /\ \A r1, r2 \in S2Seen : r1.ev.time = r2.ev.time => r1 = r2
    /\ \A r1, r2 \in S2Seen : r1.id < r2.id => r1.ev.time <= r2.ev.time
    /\ hist_spikes = {} => \A r \in hist_seen : r.cell = 2 => r \in S2Seen
    /\ (pc = "idle" /\ outcome = "returned")
          => {<<r.ev.time, r.id>> : r \in S2Seen} = ids

Busy == {th \in Threads : work[th] # <<>>}

\* The phase of the kind with epoch id k has completed.  Epoch ids count
\* from 1 after construction or reset().
Completed(kind, k) == done[kind] >= k

\* C13: a phase is started only when the phases it depends on have
\* completed: U(k) after E(k) and U(k-1), D(k) after U(k) and D(k-1), E(k)
\* after D(k-2); and the phases of one kind complete in the order of their
\* epochs, one epoch at a time.
C13_DependenciesRespected ==
    /\ [](\A th \in Busy :
            LET kind == Head(work[th]).kind
                k == Head(work[th]).ep.id
            IN  /\ ~Completed(kind, k)
                /\ kind = "U" => /\ Completed("E", k)
                                 /\ k >= 2 => Completed("U", k - 1)
                /\ kind = "D" => /\ Completed("U", k)
                                 /\ k >= 2 => Completed("D", k - 1)
                /\ kind = "E" => (k >= 3 => Completed("D", k - 2)))
    /\ [][\A kind \in {"E", "U", "D"} :
            done'[kind] # done[kind]
                => \/ done' = NoPhases
                   \/ done'[kind] = IF done[kind] = -1 THEN 1 ELSE done[kind] + 1]_vars

\* C13 witness: E(k+2) is running right after D(k) while U(k+1) is running.
C13_Witness ==
    /\ HeadIs("a", "E") /\ prog["a"].started
    /\ HeadIs("b", "U") /\ prog["b"].started
    /\ Head(work["a"]).ep.id = done.D + 2
    /\ Head(work["b"]).ep.id = done.D + 1
    /\ done.D >= 1

\* The phases that are running, as kind and epoch id.
Active ==
    {<<Head(work[th]).kind, Head(work[th]).ep.id>> :
        th \in {t \in Busy : prog[t].started}}

\* The phases that are running or free to start.
Runnable == {<<Head(work[th]).kind, Head(work[th]).ep.id>> : th \in Busy}

\* The epoch ids at most one away from that of a phase of S.
Near(S) == {x[2] + d : x \in S, d \in {-1, 0, 1}} \cup {0}

ValidParallel(S) ==
    \E k \in Near(S) :
        \/ S \subseteq {<<"U", k>>, <<"E", k + 1>>}
        \/ S \subseteq {<<"U", k>>, <<"D", k - 1>>}

\* C14: the phases running at any moment, and even those free to start,
\* are U(k) with E(k+1) or U(k) with D(k-1) for some k, or fewer; so an
\* Exchange never runs with an Enqueue, nor two phases of one kind together.
C14_OnlyValidParallelPairs ==
    /\ ValidParallel(Active)
    /\ ValidParallel(Runnable)
    /\ Cardinality(Runnable) = Cardinality(Busy)

\* C14 witness: D(k-1) and U(k) are both under way.
C14_Witness ==
    \E k \in Near(Active) : k >= 2 /\ Active = {<<"U", k>>, <<"D", k - 1>>}

\* C15: no phase that is running or free to start writes a lane buffer that
\* another such phase reads or writes.
C15_LaneBuffersRaceFree ==
    \A th1, th2 \in Busy :
        th1 # th2 =>
            LaneWrites(Head(work[th1]))
                \cap (LaneReads(Head(work[th2])) \cup LaneWrites(Head(work[th2]))) = {}

\* C15 witness: E(k+1) is writing the lanes of one parity while U(k) is
\* reading those of the other, which E(k+1) reads too.
C15_Witness ==
    \E th1, th2 \in Busy :
        /\ prog[th1].started /\ prog[th2].started
        /\ Head(work[th1]).kind = "E" /\ Head(work[th2]).kind = "U"
        /\ Head(work[th1]).ep.id = Head(work[th2]).ep.id + 1
        /\ LaneReads(Head(work[th1])) = LaneReads(Head(work[th2]))
        /\ LaneWrites(Head(work[th1])) \cap LaneReads(Head(work[th2])) = {}

\* The lane buffers the first phase of a thread has yet to read: those of
\* the cells, or of the groups, it has not dealt with.
ToRead(th) ==
    LET ph == Head(work[th])
    IN  IF ph.kind = "E"
        THEN {<<Parity(ph.ep.id - 1), i>> : i \in Cells \ prog[th].done}
        ELSE IF ph.kind = "U"
        THEN {<<Parity(ph.ep.id), c>> :
                 c \in UNION {group_queue_range(g) : g \in Groups \ prog[th].done}}
        ELSE {}

\* The lane buffers the first phase of a thread has yet to write.
ToWrite(th) ==
    LET ph == Head(work[th])
    IN  IF ph.kind = "E"
        THEN {<<Parity(ph.ep.id), i>> : i \in Cells \ prog[th].done}
        ELSE {}

\* The id of the epoch whose Enqueue built the contents of a lane buffer
\* (0: the buffer was never built).
Holds(x) == lane_ep[x[1]][x[2]].id

\* A buffer is overwritten by the Enqueue two epochs after the one that
\* built it, once the Update and the Enqueue that read it have completed;
\* E(k) and U(k) never run together.
WrittenInTurn ==
    /\ \A th \in Busy : \A x \in ToWrite(th) :
          LET j == Head(work[th]).ep.id
          IN  /\ Holds(x) = IF j >= 3 THEN j - 2 ELSE 0
              /\ j >= 3 => Completed("U", j - 2)
              /\ j >= 2 => Completed("E", j - 1)
    /\ \A th1, th2 \in Busy :
          ~(/\ Head(work[th1]).kind = "E" /\ Head(work[th2]).kind = "U"
            /\ Head(work[th1]).ep.id = Head(work[th2]).ep.id)

\* C16 as stated: the buffer holding the lanes of epoch k is read by U(k)
\* and by no other phase, is overwritten only when its readers are done, and
\* E(k) and U(k) never overlap.
C16_LaneReadOnlyByItsUpdate ==
    /\ \A th \in Busy : \A x \in ToRead(th) :
          Holds(x) >= 1
              => (Head(work[th]).kind = "U" /\ Holds(x) = Head(work[th]).ep.id)
    /\ WrittenInTurn

\* C16 amended: the buffer holding the lanes of epoch k is read by U(k) and,
\* for the events to carry over, by E(k+1), and by no other phase; U(k)
\* reads no other contents; it is overwritten only when its readers are
\* done, and E(k) and U(k) never overlap.
C16_LaneReadByUpdateAndNextEnqueue ==
    /\ \A th \in Busy : \A x \in ToRead(th) :
          /\ Head(work[th]).kind = "U" => Holds(x) = Head(work[th]).ep.id
          /\ Head(work[th]).kind = "E"
                => Holds(x) = IF Head(work[th]).ep.id >= 2
                              THEN Head(work[th]).ep.id - 1 ELSE 0
    /\ WrittenInTurn

\* C16 witness: U(k) and E(k+1) both have yet to read the same lane, which
\* holds events of epoch k.
C16_Witness ==
    \E th1, th2 \in Busy : \E x \in ToRead(th1) \cap ToRead(th2) :
        /\ Head(work[th1]).kind = "U" /\ Head(work[th2]).kind = "E"
        /\ prog[th1].started /\ prog[th2].started
        /\ Holds(x) = Head(work[th1]).ep.id
        /\ event_lanes_[x[1]][x[2]] # <<>>

\* The spikes the groups have emitted during U(k).
SpikesOf(k) == {sp \in hist_spikes : sp.k = k}

Elements(seq) == {seq[n] : n \in 1..Len(seq)}

\* C17: the store of an Update under way holds spikes of that Update only;
\* an Exchange D(k) gathers after U(k) has completed, with no Update at work
\* on the store it reads, and what it gathers is exactly the spikes emitted
\* during U(k), each once; U(k) starts only after D(k-2) has completed.
C17_ExchangeGathersItsUpdate ==
    \A th \in Busy :
        LET kind == Head(work[th]).kind
            k == Head(work[th]).ep.id
        IN  /\ (kind = "U" /\ prog[th].started)
                  => Elements(local_spikes_[Parity(k)]) \subseteq SpikesOf(k)
            /\ kind = "U" => (k >= 3 => Completed("D", k - 2))
            /\ (kind = "D" /\ ~prog[th].started)
                  => /\ Completed("U", k)
                     /\ Elements(local_spikes_[Parity(k)]) = SpikesOf(k)
                     /\ \A th2 \in Busy \ {th} :
                           Head(work[th2]).kind = "U"
                               => Parity(Head(work[th2]).ep.id) # Parity(k)
            /\ (kind = "D" /\ prog[th].started)
                  => /\ Elements(all_local_spikes) = SpikesOf(k)
                     /\ Len(all_local_spikes) = Cardinality(SpikesOf(k))

\* C17 witness: D(k) has gathered the spikes of U(k) from the store that held
\* spikes of U(k-2) before, while U(k+1) is under way.
C17_Witness ==
    \E th \in Busy :
        /\ Head(work[th]).kind = "D" /\ prog[th].started
        /\ all_local_spikes # <<>>
        /\ SpikesOf(Head(work[th]).ep.id - 2) # {}
        /\ \E th2 \in Busy : Head(work[th2]).kind = "U" /\ prog[th2].started

\* A sequence of events is in non-decreasing time order.
IsSorted(seq) == \A n \in 1..(Len(seq) - 1) : seq[n].time <= seq[n + 1].time

LanesSorted == \A x \in AllLanes : IsSorted(event_lanes_[x[1]][x[2]])

\* C18 as stated: every lane and every pending buffer is sorted by time in
\* every reachable state.
C18_LanesAndPendingSorted ==
    LanesSorted /\ \A i \in Cells : IsSorted(pending_events_[i])

\* C18 amended: every lane is sorted by time in every reachable state.
C18_LanesAlwaysSorted == LanesSorted

\* C18 witness: the first Enqueue of a run() call has built a sorted lane from
\* a pending buffer in which an event of the last Exchange was followed by an
\* injected event of an earlier time.
C18_Witness ==
    \E x \in AllLanes :
        /\ lane_ep[x[1]][x[2]].first
        /\ IsSorted(event_lanes_[x[1]][x[2]])
        /\ \E e1, e2 \in Elements(event_lanes_[x[1]][x[2]]) :
              /\ e1.org = "inj" /\ e2.org = "spk"
              /\ e2.k = lane_ep[x[1]][x[2]].id - 1
              /\ e1.time < e2.time

\* The lane buffers that hold the lanes of an epoch.
Built == {x \in AllLanes : Holds(x) >= 1}

\* C19 as stated: a lane built by E(k) holds no event before t0(k) and no
\* event at or after t1(k).
C19_LaneEventsInWindow ==
    \A x \in Built : \A e \in Elements(event_lanes_[x[1]][x[2]]) :
        lane_ep[x[1]][x[2]].t0 <= e.time /\ e.time < lane_ep[x[1]][x[2]].t1

\* C19 amended: a lane built by E(k) holds no event before t0(k); it may hold
\* events at or after t1(k), which stay on it for later epochs, and the
\* events U(k) takes as due are those before t1(k).
C19_LaneEventsNotBeforeWindow ==
    /\ \A x \in Built : \A e \in Elements(event_lanes_[x[1]][x[2]]) :
          lane_ep[x[1]][x[2]].t0 <= e.time
    /\ \A r \in hist_seen : r.t0 <= r.ev.time /\ r.ev.time < r.t1

\* C19 witness: a lane holds an event of its window and an event beyond it.
C19_Witness ==
    \E x \in Built : \E e1, e2 \in Elements(event_lanes_[x[1]][x[2]]) :
        /\ lane_ep[x[1]][x[2]].t0 <= e1.time /\ e1.time < lane_ep[x[1]][x[2]].t1
        /\ e2.time >= lane_ep[x[1]][x[2]].t1

\* How many times an event occurs in a sequence.
RECURSIVE Count(_, _)
Count(seq, e) ==
    IF seq = <<>> THEN 0
    ELSE (IF Head(seq) = e THEN 1 ELSE 0) + Count(Tail(seq), e)

\* The output of a returned call is time-sorted and holds every event of
\* old_events and of pending at or after t_to, as often as the input.
MergeSortedAndKeepsLater ==
    /\ IsSorted(merge_out)
    /\ \A e \in Elements(merge_in.old_events) \cup Elements(merge_in.pending) :
          e.time >= merge_in.t_to
              => Count(merge_out, e)
                     = Count(merge_in.old_events, e) + Count(merge_in.pending, e)

\* C20 as stated: for time-sorted old_events and pending and t_from <= t_to,
\* with or without generators, the output is time-sorted, holds no event
\* before t_from and holds every input event at or after t_to.
C20_MergeGuarantees ==
    merge_pc = "returned" =>
        /\ MergeSortedAndKeepsLater
        /\ \A e \in Elements(merge_out) : e.time >= merge_in.t_from

\* C20 amended: the output is time-sorted and holds every input event at or
\* after t_to; it holds no event of old_events or of a generator before
\* t_from, and every event of pending whatever its time, so that it holds no
\* event before t_from when pending holds none.
C20_MergeGuaranteesPendingKept ==
    merge_pc = "returned" =>
        /\ MergeSortedAndKeepsLater
        /\ \A e \in Elements(merge_out) :
              e.org # "pend" => e.time >= merge_in.t_from
        /\ \A e \in Elements(merge_in.pending) :
              Count(merge_out, e) = Count(merge_in.pending, e)
        /\ (\A e \in Elements(merge_in.pending) : e.time >= merge_in.t_from)
              => \A e \in Elements(merge_out) : e.time >= merge_in.t_from

\* C20 witness: a call with generators has returned an output with an event
\* of each stream, one of them at or after t_to, and without an event of
\* old_events that lay before t_from.
C20_Witness ==
    /\ merge_pc = "returned"
    /\ GenTimes(merge_in.cell) # {}
    /\ \A org \in {"old", "pend", "gen"} :
          \E e \in Elements(merge_out) : e.org = org
    /\ \E e \in Elements(merge_out) : e.time >= merge_in.t_to
    /\ \E e \in Elements(merge_in.old_events) :
          e.time < merge_in.t_from /\ Count(merge_out, e) = 0


\* ---- C21: the order of equal-time events in the output of the merge ----

\* A sequence in the order of the events: by time, then by weight.
EventSorted(seq) ==
    \A m \in 1..Len(seq) : \A n \in (m + 1)..Len(seq) :
        ~EventLess(seq[n], seq[m])

\* A call whose streams are in the order of the events has returned.
MergeReturned ==
    /\ merge_pc = "returned"
    /\ EventSorted(merge_in.old_events)
    /\ EventSorted(merge_in.pending)

\* The place of a stream in the order old, pending, generator 1, 2, ...
StreamRank(e) ==
    IF e.org = "old" THEN 1 ELSE IF e.org = "pend" THEN 2 ELSE 2 + e.k

\* The place of a stream among the arguments of the two-way merge.
TwoWayRank(e) == IF e.org = "pend" THEN 1 ELSE 2

\* The event is in the part of the output that the tree merge made.
TreeMerged(e) ==
    Generators(merge_in.cell) # <<>> /\ e.time < merge_in.t_to

\* Equal in the key of the order of the events.
SameKey(a, b) == a.time = b.time /\ a.weight = b.weight

\* C21 as stated (violated): in the output of merge_cell_events, events of
\* equal time are in the stream order old, pending, generator i in ascending
\* i, in the tree-merged part and in the part made by the two-way merge.
C21_EqualTimeInStreamOrder ==
    MergeReturned =>
        \A m \in 1..Len(merge_out) : \A n \in (m + 1)..Len(merge_out) :
            merge_out[m].time = merge_out[n].time
                => StreamRank(merge_out[m]) <= StreamRank(merge_out[n])

\* C21 amended: the output is in the order of the events (equal times by
\* weight); events equal in time and weight are in the stream order old,
\* pending, generator i in ascending i where the tree merge made them
\* (time < t_to, with generators), and pending before old where the two-way
\* merge made them (time >= t_to, or all events without generators).
C21_EqualKeyInMergeOrder ==
    MergeReturned =>
        /\ EventSorted(merge_out)
        /\ \A m \in 1..Len(merge_out) : \A n \in (m + 1)..Len(merge_out) :
               SameKey(merge_out[m], merge_out[n])
                   => IF TreeMerged(merge_out[m])
                      THEN StreamRank(merge_out[m]) <= StreamRank(merge_out[n])
                      ELSE TwoWayRank(merge_out[m]) <= TwoWayRank(merge_out[n])

\* C21 witness: a call with two generators has returned; below t_to an old
\* event, one of generator 1 and one of generator 2 with equal time and weight
\* come in this order, and from t_to on a pending event comes before an old
\* one of equal time and weight.
C21_Witness ==
    /\ MergeReturned
    /\ Len(Generators(merge_in.cell)) = 2
    /\ \E l, m, n \in 1..Len(merge_out) :
          /\ l < m /\ m < n
          /\ merge_out[l].org = "old"
          /\ merge_out[m].org = "gen" /\ merge_out[m].k = 1
          /\ merge_out[n].org = "gen" /\ merge_out[n].k = 2
          /\ SameKey(merge_out[l], merge_out[m])
          /\ SameKey(merge_out[m], merge_out[n])
    /\ \E m, n \in 1..Len(merge_out) :
          /\ m < n
          /\ merge_out[m].org = "pend" /\ merge_out[n].org = "old"
          /\ merge_out[m].time >= merge_in.t_to
          /\ SameKey(merge_out[m], merge_out[n])


\* ---- C22: the merge law ----

\* An event without the record of the stream it came from.
Strip(e) == [time |-> e.time, weight |-> e.weight]

\* The events of a sequence without their streams, in the order of the
\* events: equal for two sequences that hold the same events as often.
Canon(seq) == Sort([m \in 1..Len(seq) |-> Strip(seq[m])])

\* The times of a sequence, in its order.
Times(seq) == [m \in 1..Len(seq) |-> seq[m].time]

\* The spans of a span buffer one after the other.
RECURSIVE Flatten(_)
Flatten(spans) ==
    IF spans = <<>> THEN <<>> ELSE Head(spans) \o Flatten(Tail(spans))

\* The events of a sequence at the places in S, in their order.
RECURSIVE SubSequence(_, _)
SubSequence(seq, S) ==
    IF seq = <<>> THEN <<>>
    ELSE SubSequence(SubSeq(seq, 1, Len(seq) - 1), S)
         \o (IF Len(seq) \in S THEN <<seq[Len(seq)]>> ELSE <<>>)

\* What the generators of the call yield in its window.
Yielded ==
    Flatten(generator_spans(merge_in.cell, 1, merge_in.t_from, merge_in.t_to))

\* A call has returned none of whose events is before t_from.
MergeLawCase ==
    /\ merge_pc = "returned"
    /\ \A e \in Elements(merge_in.old_events) \cup Elements(merge_in.pending) :
           e.time >= merge_in.t_from

\* The output agrees with another one up to the order of equal-time events.
SameMerge(out) == Times(out) = Times(merge_out) /\ Canon(out) = Canon(merge_out)

\* C22: for events with time >= t_from, the output of merge_cell_events is
\* time-sorted and is the union of the streams (every event of old_events,
\* of pending and of what the generators yield is in it as often as in the
\* streams, and nothing else); the output is the same, up to the order of
\* equal-time events, however the events of old_events and pending are
\* divided between the two, and also when the generator events are handed
\* in among old_events and pending to a call without generators, so that
\* generators that yield nothing give the output of a call with none.
C22_MergeLaw ==
    MergeLawCase =>
        LET union == merge_in.old_events \o merge_in.pending \o Yielded
            given == Sort(merge_in.old_events \o merge_in.pending)
            all == Sort(union)
        IN  /\ IsSorted(merge_out)
            /\ Len(merge_out) = Len(union)
            /\ \A e \in Elements(union) \cup Elements(merge_out) :
                   Count(merge_out, e) = Count(union, e)
            /\ \A S \in SUBSET (1..Len(given)) :
                   SameMerge(merge_cell_events(merge_in.t_from, merge_in.t_to,
                                 SubSequence(given, S),
                                 SubSequence(given, (1..Len(given)) \ S),
                                 merge_in.cell))
            /\ \A S \in SUBSET (1..Len(all)) :
                   SameMerge(merge_cell_events(merge_in.t_from, merge_in.t_to,
                                 SubSequence(all, S),
                                 SubSequence(all, (1..Len(all)) \ S),
                                 1))

\* C22 witness: a call has returned whose old_events, pending and generators
\* all bring events, one of old_events at t_from and one at or after t_to.
C22_Witness ==
    /\ MergeLawCase
    /\ Yielded # <<>>
    /\ merge_in.pending # <<>>
    /\ \E e \in Elements(merge_in.old_events) : e.time = merge_in.t_from
    /\ \E e \in Elements(merge_in.old_events) : e.time >= merge_in.t_to
    /\ Len(merge_out) = Len(merge_in.old_events) + Len(merge_in.pending)
                        + Len(Yielded)

\* C22 witness of the last part: a call with generators that yield nothing
\* in its window has returned with events of old_events and of pending.
C22_WitnessNothingYielded ==
    /\ MergeLawCase
    /\ Generators(merge_in.cell) # <<>>
    /\ Yielded = <<>>
    /\ merge_in.old_events # <<>>
    /\ merge_in.pending # <<>>


\* ---- C23: every phase once per epoch, generator windows contiguous ----

\* The epoch id a phase of the kind must have to be the next one in turn.
NextInTurn(kind) == IF done[kind] = -1 THEN 1 ELSE done[kind] + 1

\* The step completes the first phase of the thread.
Completes(th) == work[th] # <<>> /\ work'[th] = Tail(work[th])

\* C23: over any sequence of run() calls (and inject_events() and reset()
\* calls between them), every phase that completes is the one after the last
\* completed phase of its kind, so each of E(j), U(j), D(j) is executed once
\* for every j and in increasing j; between the calls the last completed
\* phase of each kind is that of the recorded epoch, none above it; and every
\* Enqueue E(j) is given a non-empty window [t0, t1) that starts where the
\* window of E(j-1) ended, for the lane it reads and for the generators of the
\* cell, also when E(j-1) ran in an earlier call of run().
C23_PhasesOncePerEpoch ==
    /\ [](Idle => \A kind \in {"E", "U", "D"} :
                     done[kind] = IF epoch_.id = 0 THEN -1 ELSE epoch_.id)
    /\ [][\A th \in Threads :
            Completes(th)
                => LET ph == Head(work[th])
                   IN  /\ ph.ep.id = NextInTurn(ph.kind)
                       /\ done'[ph.kind] = ph.ep.id]_vars
    /\ [][\A th \in Threads : \A i \in Cells :
            EnqueueCell(th, i)
                => LET ep == Head(work[th]).ep
                       before == lane_ep[Parity(ep.id - 1)][i]
                   IN  /\ ep.t0 < ep.t1
                       /\ before.id = ep.id - 1
                       /\ before.t1 = ep.t0
                       /\ GenTimes(i) # {} => gen_clock[i] = ep.t0]_vars

\* C23 witness: after run() calls that recorded epoch k >= 1, a later call
\* is in its multi-epoch branch and E(k+2) is under way for the generator
\* cell, with E(k+1) the last Enqueue completed and the generators asked up
\* to the start of its window.
C23_Witness ==
    /\ epoch_.id >= 1
    /\ HeadIs("a", "E")
    /\ 2 \notin prog["a"].done
    /\ Head(work["a"]).ep.id = epoch_.id + 2
    /\ done.E = epoch_.id + 1
    /\ done.D = epoch_.id
    /\ gen_clock[2] = Head(work["a"]).ep.t0

====
